---- MODULE Spec2Model ----
(***************************************************************************)
(* A model of the Ollama research client.                                  *)
(*                                                                         *)
(*   SpecGenerate : OllamaClient.generate (src/ollama_client.py), with the *)
(*                  tenacity retry wrapper, the request normalisation,     *)
(*                  the blocking reply and the streaming reply handler.    *)
(*   SpecResearch : main's "Start Research" handler (src/app.py), driving  *)
(*                  the research pipeline and its cleanup.                 *)
(*                                                                         *)
(* Text is a sequence of characters, so that concatenation is \o.          *)
(* A Python/JSON value is a tagged record, so that str(), truthiness and   *)
(* "".join() behave as they do on values of different types.               *)
(***************************************************************************)
EXTENDS Integers, Sequences, FiniteSets, TLC

VARIABLES
    \* ---- OllamaClient.generate ----
    context_window,   \* self.context_window
    options,          \* the caller's options argument (a dict the code mutates in place)
    options0,         \* the options argument as it was when generate was called
    stream,           \* the stream argument
    callback,         \* the callback argument: "none", "returns" or "raises"
    attempt,          \* tenacity's attempt number of the current invocation
    gpc,              \* where generate is: "idle", "attempt", "streaming", "done"
    sent,             \* the request bodies handed to requests.post, in order
    outcomes,         \* what each attempt ended with
    raised,           \* the exception that left generate ("none" if none)
    events,           \* the events the caller received, in order
    buffer,           \* _handle_streaming_response's buffer
    cbCalls,          \* the fragments the callback was called with
    wire,             \* the wire lines iter_lines has delivered so far
    \* ---- main's "Start Research" handler ----
    rpc,              \* where the handler is: "start", "loop", "finally", "exit"
    research_manager, \* the local research_manager: "None" or "manager"
    exc,              \* the exception that ended the try block ("none" if none)
    cleanupCalls,     \* how many times research_manager.cleanup() was called
    consumed,         \* the results the for loop has received, in order
    consumedAtCleanup,\* how many results had been received when cleanup was called
    progress,         \* the values update_progress gave to the progress bar
    routed,           \* the container update_progress rendered each message in
    \* ---- the research pipeline ----
    search_depth,     \* config: search iterations per area
    max_sources,      \* config: cap on the sources of one area
    stage,            \* the pipeline's stage
    nAreas,           \* the number of areas the plan produced
    area,             \* the area being searched or summarised
    iter,             \* the search iteration of that area
    steps,            \* the steps completed so far
    sources,          \* the urls collected for each area
    pevents,          \* the progress events emitted, in order
    calls             \* the model and fetch requests issued, in order

genVars == <<context_window, options, options0, stream, callback, attempt, gpc,
             sent, outcomes, raised, events, buffer, cbCalls, wire>>

appVars == <<rpc, research_manager, exc, cleanupCalls, consumed, consumedAtCleanup,
             progress, routed>>

pipeVars == <<search_depth, max_sources, stage, nAreas, area, iter, steps, sources,
              pevents, calls>>

resVars == <<appVars, pipeVars>>

vars == <<genVars, resVars>>

-----------------------------------------------------------------------------
(* Bounds of the model.                                                    *)
MaxLines == 2
MaxTokens == 3
MaxCtx == 2
MaxAreas == 2
MaxDepth == 2
MaxSourcesCap == 2
NumUrls == 3

(* stop_after_attempt(3) of the @retry decorator.                          *)
StopAfterAttempt == 3

-----------------------------------------------------------------------------
(* Python and JSON values.                                                 *)

Get(d, k, default) == IF k \in DOMAIN d THEN d[k] ELSE default

EmptyDict == <<>>

\* a JSON / Python scalar: its type and its str() text
Str(s) == [t |-> "str", v |-> s]
IntSeven == [t |-> "int", v |-> <<"7">>]
PyNone == [t |-> "none", v |-> <<"N", "o", "n", "e">>]
JDict(o) == [t |-> "dict", v |-> <<>>, o |-> o]
JScalar(x) == [t |-> x.t, v |-> x.v, o |-> EmptyDict]

\* str(x)
PyStr(x) == Str(x.v)

\* bool(x)
Truthy(x) ==
    CASE x.t = "str" -> x.v # <<>>
      [] x.t = "int" -> x.v # <<"0">>
      [] x.t = "none" -> FALSE
      [] OTHER -> TRUE

\* "".join(buf) raises TypeError unless every item is a str
JoinOk(buf) == \A i \in 1..Len(buf) : buf[i].t = "str"

RECURSIVE Join(_)
Join(buf) == IF buf = <<>> THEN <<>> ELSE Head(buf).v \o Join(Tail(buf))

\* an option value: a number, or a value of another type
Num(n) == [t |-> "int", n |-> n]
NotANumber == [t |-> "str", n |-> 0]
Flag(b) == [t |-> "bool", n |-> IF b THEN 1 ELSE 0]
Name(s) == [t |-> "name", n |-> 0, s |-> s]

\* dict.update: the keys of extra override those of base
DictUpdate(base, extra) ==
    [k \in DOMAIN base \cup DOMAIN extra |->
        IF k \in DOMAIN extra THEN extra[k] ELSE base[k]]

ModelArg == "researcher"
PromptArg == "topic"


-----------------------------------------------------------------------------
(* The inputs of generate.                                                 *)

OptionChoices == {"none", "empty", "temperature", "max_tokens",
                  "max_tokens_temperature", "max_tokens_text",
                  "stream_key", "model_prompt_keys"}

\* the options argument: None, {} or a dict
OptionsOf(c, r) ==
    CASE c = "none" -> [given |-> FALSE, map |-> EmptyDict]
      [] c = "empty" -> [given |-> TRUE, map |-> EmptyDict]
      [] c = "temperature" -> [given |-> TRUE, map |-> [temperature |-> Num(1)]]
      [] c = "max_tokens" -> [given |-> TRUE, map |-> [max_tokens |-> Num(r)]]
      [] c = "max_tokens_temperature" ->
            [given |-> TRUE, map |-> [max_tokens |-> Num(r), temperature |-> Num(1)]]
      [] c = "max_tokens_text" -> [given |-> TRUE, map |-> [max_tokens |-> NotANumber]]
      [] c = "stream_key" -> [given |-> TRUE, map |-> [stream |-> Flag(TRUE)]]
      [] c = "model_prompt_keys" ->
            [given |-> TRUE, map |-> [model |-> Name("other"), prompt |-> Name("other")]]

Callbacks == {"none", "returns", "raises"}

\* the reply bodies of a blocking call
BodyKinds == {"string", "object_full", "object_empty", "object_not_done",
              "number", "null", "raw"}

BodyOf(b) ==
    CASE b = "string" -> [kind |-> "json", val |-> JScalar(Str(<<"a", "b">>)), raw |-> <<>>]
      [] b = "object_full" ->
            [kind |-> "json", raw |-> <<>>,
             val |-> JDict([response |-> Str(<<"a", "b">>), model |-> "m2",
                            created_at |-> "t1", done |-> TRUE])]
      [] b = "object_empty" -> [kind |-> "json", val |-> JDict(EmptyDict), raw |-> <<>>]
      [] b = "object_not_done" ->
            [kind |-> "json", raw |-> <<>>,
             val |-> JDict([response |-> Str(<<"a">>), done |-> FALSE])]
      [] b = "number" -> [kind |-> "json", val |-> JScalar(IntSeven), raw |-> <<>>]
      [] b = "null" -> [kind |-> "json", val |-> JScalar(PyNone), raw |-> <<>>]
      [] b = "raw" -> [kind |-> "raw", val |-> JScalar(PyNone), raw |-> <<"x", "{">>]

\* the lines of a streaming reply
LineKinds == {"empty", "frag_a", "frag_b_meta", "frag_a_done", "final_done",
              "no_response", "num_response", "json_string", "json_number",
              "raw", "bad_utf8"}

LineOf(l) ==
    CASE l = "empty" -> [kind |-> "empty", val |-> JScalar(PyNone), raw |-> <<>>]
      [] l = "frag_a" ->
            [kind |-> "json", raw |-> <<>>, val |-> JDict([response |-> Str(<<"a">>)])]
      [] l = "frag_b_meta" ->
            [kind |-> "json", raw |-> <<>>,
             val |-> JDict([response |-> Str(<<"b">>), model |-> "m2",
                            created_at |-> "t1", done |-> FALSE])]
      [] l = "frag_a_done" ->
            [kind |-> "json", raw |-> <<>>,
             val |-> JDict([response |-> Str(<<"a">>), done |-> TRUE])]
      [] l = "final_done" ->
            [kind |-> "json", raw |-> <<>>,
             val |-> JDict([response |-> Str(<<>>), model |-> "m2",
                            created_at |-> "t1", done |-> TRUE])]
      [] l = "no_response" -> [kind |-> "json", val |-> JDict(EmptyDict), raw |-> <<>>]
      [] l = "num_response" ->
            [kind |-> "json", raw |-> <<>>, val |-> JDict([response |-> IntSeven])]
      [] l = "json_string" -> [kind |-> "json", val |-> JScalar(Str(<<"b">>)), raw |-> <<>>]
      [] l = "json_number" -> [kind |-> "json", val |-> JScalar(IntSeven), raw |-> <<>>]
      [] l = "raw" -> [kind |-> "raw", val |-> JScalar(PyNone), raw |-> <<"x">>]
      [] l = "bad_utf8" -> [kind |-> "bad_utf8", val |-> JScalar(PyNone), raw |-> <<>>]

-----------------------------------------------------------------------------
(* generate: building the request (lines 45-57).                           *)

\* "if options:"
OptionsTruthy(opt) == opt.given /\ DOMAIN opt.map # {}

HasMaxTokens(opt) == OptionsTruthy(opt) /\ "max_tokens" \in DOMAIN opt.map

\* min(options["max_tokens"], self.context_window) raises TypeError on a non-number
BuildRaises(opt) == HasMaxTokens(opt) /\ opt.map["max_tokens"].t # "int"

\* a clamp that leaves the requested value as it is
ClampNone(r, w) == r

\* min(requested, window)
Clamp(r, w) == IF r < w THEN r ELSE w

\* options after "options["max_tokens"] = min(...)": the caller's dict, in place
NormalizedOptions(opt, w) ==
    IF HasMaxTokens(opt)
    THEN [opt EXCEPT !.map["max_tokens"] = Num(Clamp(opt.map["max_tokens"].n, w))]
    ELSE opt

\* data = {"model", "prompt", "stream"}; data.update(options)
RequestData(opt, s) ==
    LET base == [model |-> Name(ModelArg), prompt |-> Name(PromptArg), stream |-> Flag(s)]
    IN  IF OptionsTruthy(opt) THEN DictUpdate(base, opt.map) ELSE base

-----------------------------------------------------------------------------
(* generate: the events.                                                   *)

ErrorEvent(msg) == [response |-> Str(<<>>), error |-> msg]

StreamErrorEvent(msg) == [response |-> Str(<<>>), error |-> msg, done |-> TRUE]

\* the blocking reply, normalised (lines 66-97)
NormalizeBody(body, model) ==
    IF body.kind = "raw"
    THEN [response |-> Str(body.raw), model |-> model, created_at |-> "", done |-> TRUE]
    ELSE IF body.val.t = "str"
    THEN [response |-> Str(body.val.v), model |-> model, created_at |-> "", done |-> TRUE]
    ELSE IF body.val.t = "dict"
    THEN [response |-> Get(body.val.o, "response", Str(<<>>)),
          model |-> Get(body.val.o, "model", model),
          created_at |-> Get(body.val.o, "created_at", ""),
          done |-> Get(body.val.o, "done", TRUE)]
    ELSE [response |-> PyStr(body.val), model |-> model, created_at |-> "", done |-> TRUE]

\* one line of the stream (lines 112-155): whether it is skipped, whether parsing
\* raises something other than JSONDecodeError, the fragment handed to the callback
\* and the buffer (if any), and the event yielded
HandleLine(line) ==
    IF line.kind = "empty"
    THEN [skip |-> TRUE, raises |-> FALSE, keep |-> FALSE, frag |-> Str(<<>>),
          event |-> EmptyDict]
    ELSE IF line.kind = "bad_utf8"
    THEN [skip |-> FALSE, raises |-> TRUE, keep |-> FALSE, frag |-> Str(<<>>),
          event |-> EmptyDict]
    ELSE IF line.kind = "raw"
    THEN [skip |-> FALSE, raises |-> FALSE, keep |-> TRUE, frag |-> Str(line.raw),
          event |-> [response |-> Str(line.raw), model |-> "", created_at |-> "",
                     done |-> FALSE]]
    ELSE IF line.val.t = "dict"
    THEN LET response_text == Get(line.val.o, "response", Str(<<>>))
         IN  [skip |-> FALSE, raises |-> FALSE, keep |-> Truthy(response_text),
              frag |-> response_text,
              event |-> [response |-> response_text,
                         model |-> Get(line.val.o, "model", ""),
                         created_at |-> Get(line.val.o, "created_at", ""),
                         done |-> Get(line.val.o, "done", FALSE)]]
    ELSE [skip |-> FALSE, raises |-> FALSE, keep |-> TRUE, frag |-> PyStr(line.val),
          event |-> [response |-> PyStr(line.val), model |-> "", created_at |-> "",
                     done |-> FALSE]]

\* the final chunk (lines 158-164)
FinalEvent(buf) == [response |-> Str(Join(buf)), model |-> "", created_at |-> "",
                    done |-> TRUE]

-----------------------------------------------------------------------------
(* generate: the calls.                                                    *)

\* OllamaClient.__init__ (lines 15-28): nothing has been called yet
GenInit ==
    /\ context_window \in 1..MaxCtx
    /\ options = OptionsOf("none", 1)
    /\ options0 = OptionsOf("none", 1)
    /\ stream = FALSE
    /\ callback = "none"
    /\ attempt = 0
    /\ gpc = "idle"
    /\ sent = <<>>
    /\ outcomes = <<>>
    /\ raised = "none"
    /\ events = <<>>
    /\ buffer = <<>>
    /\ cbCalls = <<>>
    /\ wire = <<>>

\* the caller invokes generate(model, prompt, options, stream, callback)
GenerateCall ==
    /\ gpc = "idle"
    /\ \E c \in OptionChoices, r \in 1..MaxTokens :
          /\ options' = OptionsOf(c, r)
          /\ options0' = OptionsOf(c, r)
    /\ stream' \in BOOLEAN
    /\ callback' \in Callbacks
    /\ attempt' = 1
    /\ gpc' = "attempt"
    /\ UNCHANGED <<context_window, sent, outcomes, raised, events, buffer, cbCalls, wire>>
    /\ UNCHANGED resVars

\* tenacity's @retry (line 30): an exception leaving the function body is retried
\* until stop_after_attempt, and then RetryError is raised to the caller
RetryOrRaise ==
    IF attempt < StopAfterAttempt
    THEN /\ attempt' = attempt + 1
         /\ gpc' = "attempt"
         /\ raised' = raised
    ELSE /\ attempt' = attempt
         /\ gpc' = "done"
         /\ raised' = "RetryError"

\* lines 53-57 raise before the try block is entered
AttemptBuildRaises ==
    /\ gpc = "attempt"
    /\ BuildRaises(options)
    /\ outcomes' = Append(outcomes, "TypeError")
    /\ RetryOrRaise
    /\ UNCHANGED <<context_window, options, options0, stream, callback, sent, events,
                   buffer, cbCalls, wire>>
    /\ UNCHANGED resVars

\* lines 45-60: the request is built and handed to requests.post
SendRequest ==
    /\ gpc = "attempt"
    /\ ~BuildRaises(options)
    /\ options' = NormalizedOptions(options, context_window)
    /\ sent' = Append(sent, RequestData(options', stream))
    /\ UNCHANGED <<context_window, options0, stream, callback>>

\* requests.exceptions.Timeout (lines 99-101): returned as an event, so tenacity
\* sees a normal return
AttemptTimeout ==
    /\ SendRequest
    /\ outcomes' = Append(outcomes, "Timeout")
    /\ events' = <<ErrorEvent("Request timed out")>>
    /\ gpc' = "done"
    /\ UNCHANGED <<attempt, raised, buffer, cbCalls, wire>>
    /\ UNCHANGED resVars

\* any other RequestException, raise_for_status included (lines 102-104)
AttemptRequestException ==
    /\ SendRequest
    /\ \E e \in {"Connection refused", "500 Server Error"} :
          /\ outcomes' = Append(outcomes, "RequestException")
          /\ events' = <<ErrorEvent(e)>>
    /\ gpc' = "done"
    /\ UNCHANGED <<attempt, raised, buffer, cbCalls, wire>>
    /\ UNCHANGED resVars

\* requests.post raises something that is no RequestException: neither except
\* clause (lines 99, 102) catches it
AttemptOtherException ==
    /\ SendRequest
    /\ outcomes' = Append(outcomes, "OtherException")
    /\ RetryOrRaise
    /\ UNCHANGED <<events, buffer, cbCalls, wire>>
    /\ UNCHANGED resVars

\* a 2xx reply to a blocking call (lines 66-97)
AttemptOkBlocking ==
    /\ ~stream
    /\ SendRequest
    /\ outcomes' = Append(outcomes, "Ok")
    /\ \E b \in BodyKinds : events' = <<NormalizeBody(BodyOf(b), ModelArg)>>
    /\ gpc' = "done"
    /\ UNCHANGED <<attempt, raised, buffer, cbCalls, wire>>
    /\ UNCHANGED resVars

\* a 2xx reply to a streaming call (lines 63-64): the generator is returned
AttemptOkStreaming ==
    /\ stream
    /\ SendRequest
    /\ outcomes' = Append(outcomes, "Ok")
    /\ gpc' = "streaming"
    /\ UNCHANGED <<attempt, raised, events, buffer, cbCalls, wire>>
    /\ UNCHANGED resVars

-----------------------------------------------------------------------------
(* _handle_streaming_response (lines 106-172).                             *)

\* the except clause of line 166
StreamAbort(msg) ==
    /\ events' = Append(events, StreamErrorEvent(msg))
    /\ gpc' = "done"

\* iter_lines delivers a line; the callback, if called, returns
StreamLine ==
    /\ gpc = "streaming"
    /\ Len(wire) < MaxLines
    /\ \E l \in LineKinds :
          LET h == HandleLine(LineOf(l)) IN
          /\ wire' = Append(wire, l)
          /\ IF h.skip
             THEN UNCHANGED <<events, buffer, cbCalls, gpc>>
             ELSE IF h.raises
             THEN /\ StreamAbort("UnicodeDecodeError")
                  /\ UNCHANGED <<buffer, cbCalls>>
             ELSE /\ events' = Append(events, h.event)
                  /\ buffer' = IF h.keep THEN Append(buffer, h.frag) ELSE buffer
                  /\ cbCalls' = IF h.keep /\ callback # "none"
                                THEN Append(cbCalls, h.frag) ELSE cbCalls
                  /\ gpc' = gpc
    /\ UNCHANGED <<context_window, options, options0, stream, callback, attempt, sent,
                   outcomes, raised>>
    /\ UNCHANGED resVars

\* iter_lines delivers a line and the callback raises on its fragment
StreamLineCallbackRaises ==
    /\ gpc = "streaming"
    /\ Len(wire) < MaxLines
    /\ callback = "raises"
    /\ \E l \in LineKinds :
          LET h == HandleLine(LineOf(l)) IN
          /\ ~h.skip /\ ~h.raises /\ h.keep
          /\ wire' = Append(wire, l)
          /\ cbCalls' = Append(cbCalls, h.frag)
          /\ StreamAbort("callback failed")
    /\ UNCHANGED <<context_window, options, options0, stream, callback, attempt, sent,
                   outcomes, raised, buffer>>
    /\ UNCHANGED resVars

\* iter_lines itself raises: the connection broke between two lines
StreamIterRaises ==
    /\ gpc = "streaming"
    /\ StreamAbort("Connection broken")
    /\ UNCHANGED <<context_window, options, options0, stream, callback, attempt, sent,
                   outcomes, raised, buffer, cbCalls, wire>>
    /\ UNCHANGED resVars

\* the transport closes the stream (lines 157-164); "".join raises TypeError on a
\* buffered fragment that is no str, which line 166 catches
StreamEnd ==
    /\ gpc = "streaming"
    /\ IF JoinOk(buffer)
       THEN /\ events' = Append(events, FinalEvent(buffer))
            /\ gpc' = "done"
       ELSE StreamAbort("TypeError")
    /\ UNCHANGED <<context_window, options, options0, stream, callback, attempt, sent,
                   outcomes, raised, buffer, cbCalls, wire>>
    /\ UNCHANGED resVars

GenNext ==
    \/ GenerateCall
    \/ AttemptBuildRaises
    \/ AttemptTimeout
    \/ AttemptRequestException
    \/ AttemptOtherException
    \/ AttemptOkBlocking
    \/ AttemptOkStreaming
    \/ StreamLine
    \/ StreamLineCallbackRaises
    \/ StreamIterRaises
    \/ StreamEnd

-----------------------------------------------------------------------------
(* The research pipeline, ResearchManager.research.                        *)

Urls == 1..NumUrls

\* the failure texts a generation event can carry
ErrTexts == {"Request timed out", "Connection refused"}

\* a total that leaves the aggregate step out
TotalStepsNoAggregate(n, d) == 1 + n * d + n

\* total steps = 1 (plan) + N * depth (search) + N (summary) + 1 (aggregate)
TotalSteps(n, d) == 1 + n * d + n + 1

\* a fraction that counts the steps before the one just completed
StepFractionBefore(k, n, d) == IF n = 0 THEN <<0, 1>> ELSE <<k - 1, TotalSteps(n, d)>>

\* the fraction after completing step k, as <<numerator, denominator>>; before the
\* plan is known nothing is completed and the fraction is 0
StepFraction(k, n, d) == IF n = 0 THEN <<0, 1>> ELSE <<k, TotalSteps(n, d)>>

\* a cap test that is off by one
CapExceeded(count, cap) == count > cap

\* the area's cumulative source count has reached the cap
CapReached(count, cap) == count >= cap

\* the sources of an area after merging a fetch result, deduplicated by url
MergeSources(have, fetched) == have \cup fetched

\* the u lowest-numbered urls not yet among have
LowestUnseen(have, u) ==
    {x \in Urls \ have : Cardinality({y \in Urls \ have : y < x}) < u}

\* what the fetcher may return for max_count: at most max_count records (none when
\* nothing is found or the fetch fails), some of them urls the area already holds
\* and the others new; urls matter only by equality, so the new ones are taken to
\* be the lowest-numbered unseen ones
FetchResults(have, max_count) ==
    UNION {{dup \cup LowestUnseen(have, u) : u \in 0..(max_count - Cardinality(dup))} :
              dup \in {d \in SUBSET have : Cardinality(d) <= max_count}}

\* the message of a stage's progress event
MessageOf(st) ==
    CASE st = "Planning" -> "Research Plan"
      [] st = "AreaSearch" -> "Researching area"
      [] st = "AreaSummary" -> "Researching area"
      [] st = "Complete" -> "Research complete"

\* a progress event; it records the area and the iteration the pipeline is at when
\* it is emitted (0 where there is none)
ProgressEvent(st, fraction, message, note) ==
    [stage |-> st, num |-> fraction[1], den |-> fraction[2], message |-> message,
     note |-> note, area |-> area, iter |-> iter]

ModelCall(st, a, result) ==
    [kind |-> "model", stage |-> st, area |-> a, result |-> result, have |-> 0,
     max_count |-> 0]

FetchCall(a, have, max_count) ==
    [kind |-> "fetch", stage |-> "AreaSearch", area |-> a, result |-> "ok",
     have |-> have, max_count |-> max_count]

-----------------------------------------------------------------------------
(* main's "Start Research" handler (src/app.py, lines 233-288).            *)

\* update_progress (lines 249-266): where a message is rendered
ContainerOf(message) ==
    CASE message = "Research Plan" -> "research_plan_container"
      [] message = "Researching area" -> "research_areas_container"
      [] message = "Research complete" -> "final_report_container"
      [] OTHER -> "page"

\* the progress callback and the loop body (lines 249-266, 275-281) for one event
\* of the pipeline
Deliver(ev) ==
    /\ pevents' = Append(pevents, ev)
    /\ progress' = Append(progress, <<ev.num, ev.den>>)
    /\ routed' = Append(routed, ContainerOf(ev.message))
    /\ consumed' = Append(consumed, IF ev.stage = "Error" THEN "st.error" ELSE "st.markdown")

\* a cleanup that runs only when the try block ended normally
CleanupOnSuccessOnly(rm, ex) == rm # "None" /\ ex = "none"

\* "if research_manager:" of the finally clause (line 287)
CleanupDue(rm, ex) == rm # "None"

ResInit ==
    /\ rpc = "start"
    /\ research_manager = "None"
    /\ exc = "none"
    /\ cleanupCalls = 0
    /\ consumed = <<>>
    /\ consumedAtCleanup = 0
    /\ progress = <<>>
    /\ routed = <<>>
    /\ search_depth \in 1..MaxDepth
    /\ max_sources \in 1..MaxSourcesCap
    /\ stage = "NotStarted"
    /\ nAreas = 0
    /\ area = 0
    /\ iter = 0
    /\ steps = 0
    /\ sources = <<>>
    /\ pevents = <<>>
    /\ calls = <<>>

\* lines 241-245 and 269: the manager is constructed and research() is called
StartResearch ==
    /\ rpc = "start"
    /\ research_manager' = "manager"
    /\ rpc' = "loop"
    /\ stage' = "Planning"
    /\ UNCHANGED <<exc, cleanupCalls, consumed, consumedAtCleanup, progress, routed>>
    /\ UNCHANGED <<search_depth, max_sources, nAreas, area, iter, steps, sources,
                   pevents, calls>>
    /\ UNCHANGED genVars

\* the constructor raises: research_manager is still None at line 287
ConstructorRaises ==
    /\ rpc = "start"
    /\ exc' = "Exception"
    /\ rpc' = "finally"
    /\ UNCHANGED <<research_manager, cleanupCalls, consumed, consumedAtCleanup,
                   progress, routed>>
    /\ UNCHANGED pipeVars
    /\ UNCHANGED genVars

Running(st) == rpc = "loop" /\ stage = st

\* an Error event that drops the upstream text
FailWithGenericText(text) ==
    /\ Deliver(ProgressEvent("Error", StepFraction(steps, nAreas, search_depth),
                             "Research failed", ""))
    /\ stage' = "Error"

\* any stage: the pipeline turns a failure into its Error event and stops
FailWith(text) ==
    /\ Deliver(ProgressEvent("Error", StepFraction(steps, nAreas, search_depth), text, ""))
    /\ stage' = "Error"

\* Planning: one generation request, parsed into n >= 1 areas
PlanOk ==
    /\ Running("Planning")
    /\ \E n \in 1..MaxAreas :
          /\ nAreas' = n
          /\ sources' = [a \in 1..n |-> {}]
          /\ Deliver(ProgressEvent("Planning", StepFraction(1, n, search_depth),
                                   MessageOf("Planning"), ""))
    /\ calls' = Append(calls, ModelCall("Planning", 0, "ok"))
    /\ steps' = 1
    /\ stage' = "AreaSearch"
    /\ area' = 1
    /\ iter' = 1
    /\ UNCHANGED <<rpc, research_manager, exc, cleanupCalls, consumedAtCleanup>>
    /\ UNCHANGED <<search_depth, max_sources>>
    /\ UNCHANGED genVars

\* Planning: the reply yields no usable area list
PlanUnusable ==
    /\ Running("Planning")
    /\ calls' = Append(calls, ModelCall("Planning", 0, "ok"))
    /\ FailWith("no usable research areas")
    /\ UNCHANGED <<rpc, research_manager, exc, cleanupCalls, consumedAtCleanup>>
    /\ UNCHANGED <<search_depth, max_sources, nAreas, area, iter, steps, sources>>
    /\ UNCHANGED genVars

\* the generation request of a stage ends in an error event
ModelError ==
    /\ rpc = "loop"
    /\ \/ stage \in {"Planning", "AreaSummary", "Aggregating"}
       \/ /\ stage = "AreaSearch"
          /\ iter >= 2
          /\ ~CapReached(Cardinality(sources[area]), max_sources)
    /\ \E text \in ErrTexts :
          /\ calls' = Append(calls, ModelCall(stage, area, text))
          /\ FailWith(text)
    /\ UNCHANGED <<rpc, research_manager, exc, cleanupCalls, consumedAtCleanup>>
    /\ UNCHANGED <<search_depth, max_sources, nAreas, area, iter, steps, sources>>
    /\ UNCHANGED genVars

\* an advance that gives every area one iteration only
SearchAdvanceOneIteration ==
    IF area < nAreas
    THEN /\ area' = area + 1
         /\ iter' = 1
         /\ stage' = stage
    ELSE /\ area' = 1
         /\ iter' = 0
         /\ stage' = "AreaSummary"

\* AreaSearch: the next (area, iteration), or AreaSummary after the last one
SearchAdvance ==
    IF iter < search_depth
    THEN /\ iter' = iter + 1
         /\ UNCHANGED <<area, stage>>
    ELSE IF area < nAreas
    THEN /\ area' = area + 1
         /\ iter' = 1
         /\ stage' = stage
    ELSE /\ area' = 1
         /\ iter' = 0
         /\ stage' = "AreaSummary"

\* AreaSearch: the cap is reached, the iteration is skipped and progress advances
SearchSkip ==
    /\ Running("AreaSearch")
    /\ CapReached(Cardinality(sources[area]), max_sources)
    /\ steps' = steps + 1
    /\ Deliver(ProgressEvent("AreaSearch", StepFraction(steps', nAreas, search_depth),
                             MessageOf("AreaSearch"), "skipped"))
    /\ SearchAdvance
    /\ UNCHANGED <<rpc, research_manager, exc, cleanupCalls, consumedAtCleanup>>
    /\ UNCHANGED <<search_depth, max_sources, nAreas, sources, calls>>
    /\ UNCHANGED genVars

\* AreaSearch: the query (refined by a generation request from iteration 2 on),
\* the fetch for what is left of the cap, and the merge
SearchFetch ==
    /\ Running("AreaSearch")
    /\ ~CapReached(Cardinality(sources[area]), max_sources)
    /\ LET have == Cardinality(sources[area])
           max_count == max_sources - have
           refine == IF iter >= 2 THEN <<ModelCall("AreaSearch", area, "ok")>> ELSE <<>>
       IN  /\ calls' = calls \o refine \o <<FetchCall(area, have, max_count)>>
           /\ \E fetched \in FetchResults(sources[area], max_count) :
                 sources' = [sources EXCEPT ![area] = MergeSources(@, fetched)]
    /\ steps' = steps + 1
    /\ Deliver(ProgressEvent("AreaSearch", StepFraction(steps', nAreas, search_depth),
                             MessageOf("AreaSearch"), "fetched"))
    /\ SearchAdvance
    /\ UNCHANGED <<rpc, research_manager, exc, cleanupCalls, consumedAtCleanup>>
    /\ UNCHANGED <<search_depth, max_sources, nAreas>>
    /\ UNCHANGED genVars

\* AreaSummary: one generation request per area
SummaryOk ==
    /\ Running("AreaSummary")
    /\ calls' = Append(calls, ModelCall("AreaSummary", area, "ok"))
    /\ steps' = steps + 1
    /\ Deliver(ProgressEvent("AreaSummary", StepFraction(steps', nAreas, search_depth),
                             MessageOf("AreaSummary"), ""))
    /\ IF area < nAreas
       THEN area' = area + 1 /\ stage' = stage
       ELSE area' = 0 /\ stage' = "Aggregating"
    /\ UNCHANGED <<rpc, research_manager, exc, cleanupCalls, consumedAtCleanup>>
    /\ UNCHANGED <<search_depth, max_sources, nAreas, iter, sources>>
    /\ UNCHANGED genVars

\* AreaSummary: the summary request returns empty text
SummaryEmpty ==
    /\ Running("AreaSummary")
    /\ calls' = Append(calls, ModelCall("AreaSummary", area, "ok"))
    /\ FailWith("empty summary")
    /\ UNCHANGED <<rpc, research_manager, exc, cleanupCalls, consumedAtCleanup>>
    /\ UNCHANGED <<search_depth, max_sources, nAreas, area, iter, steps, sources>>
    /\ UNCHANGED genVars

\* Aggregating, then Complete: the final report at fraction 1.0
AggregateOk ==
    /\ Running("Aggregating")
    /\ calls' = Append(calls, ModelCall("Aggregating", 0, "ok"))
    /\ steps' = steps + 1
    /\ Deliver(ProgressEvent("Complete", StepFraction(steps', nAreas, search_depth),
                             MessageOf("Complete"), ""))
    /\ stage' = "Complete"
    /\ UNCHANGED <<rpc, research_manager, exc, cleanupCalls, consumedAtCleanup>>
    /\ UNCHANGED <<search_depth, max_sources, nAreas, area, iter, sources>>
    /\ UNCHANGED genVars

\* the sequence is exhausted: the for loop of line 269 ends
LoopEnds ==
    /\ rpc = "loop"
    /\ stage \in {"Complete", "Error"}
    /\ rpc' = "finally"
    /\ UNCHANGED <<research_manager, exc, cleanupCalls, consumed, consumedAtCleanup,
                   progress, routed>>
    /\ UNCHANGED pipeVars
    /\ UNCHANGED genVars

\* something inside the try block raises once the manager exists (lines 247-281,
\* rendering a result for one): an Exception is caught at line 283, anything else
\* (Streamlit stopping or rerunning the script) propagates; either way the
\* sequence is abandoned and the finally clause runs
LoopRaises ==
    /\ rpc = "loop"
    /\ exc' \in {"Exception", "BaseException"}
    /\ rpc' = "finally"
    /\ UNCHANGED <<research_manager, cleanupCalls, consumed, consumedAtCleanup,
                   progress, routed>>
    /\ UNCHANGED pipeVars
    /\ UNCHANGED genVars

\* the finally clause (lines 286-288)
Finally ==
    /\ rpc = "finally"
    /\ IF CleanupDue(research_manager, exc)
       THEN /\ cleanupCalls' = cleanupCalls + 1
            /\ consumedAtCleanup' = Len(consumed)
       ELSE UNCHANGED <<cleanupCalls, consumedAtCleanup>>
    /\ rpc' = "exit"
    /\ UNCHANGED <<research_manager, exc, consumed, progress, routed>>
    /\ UNCHANGED pipeVars
    /\ UNCHANGED genVars

ResNext ==
    \/ StartResearch
    \/ ConstructorRaises
    \/ PlanOk
    \/ PlanUnusable
    \/ ModelError
    \/ SearchSkip
    \/ SearchFetch
    \/ SummaryOk
    \/ SummaryEmpty
    \/ AggregateOk
    \/ LoopEnds
    \/ LoopRaises
    \/ Finally

-----------------------------------------------------------------------------
(* The specifications.                                                     *)

\* generate on a constructed client, with no research running
GenerateInit ==
    /\ GenInit
    /\ ResInit
    /\ search_depth = 1
    /\ max_sources = 1

SpecGenerate == GenerateInit /\ [][GenNext]_vars

\* a research run, with no generate call of its own in flight
ResearchInit ==
    /\ ResInit
    /\ GenInit
    /\ context_window = 1

SpecResearch == ResearchInit /\ [][ResNext]_vars

-----------------------------------------------------------------------------
(* Properties of generate.                                                 *)

HasError(e) == "error" \in DOMAIN e

DoneSet(e) == "done" \in DOMAIN e /\ e.done = TRUE

\* a terminal event: its done flag is set, or it reports an error
IsTerminal(e) == DoneSet(e) \/ HasError(e)

\* a partial event: done flag not set, no error
IsPartial(e) == ~DoneSet(e) /\ ~HasError(e)

LastOutcome == IF outcomes = <<>> THEN "none" ELSE outcomes[Len(outcomes)]

\* the streaming handler has run (the request of a streaming call succeeded)
Streamed == stream /\ LastOutcome = "Ok" /\ gpc \in {"streaming", "done"}

RECURSIVE ConcatResponses(_)
ConcatResponses(evs) ==
    IF evs = <<>> THEN <<>> ELSE Head(evs).response.v \o ConcatResponses(Tail(evs))

\* C1: the events of one streaming call are zero or more partial events followed
\* by exactly one terminal event, and nothing follows the terminal event: every
\* event but the last is partial, no terminal event is out while the stream is
\* still being read, and a finished stream ends with a terminal event.
C1_PartialsThenOneTerminal ==
    Streamed =>
        /\ \A i \in 1..(Len(events) - 1) : IsPartial(events[i])
        /\ gpc = "streaming" => \A i \in 1..Len(events) : IsPartial(events[i])
        /\ gpc = "done" => events # <<>> /\ IsTerminal(events[Len(events)])

\* C2: a request-establishment failure (timeout, connection failure, non-2xx
\* status) is retried up to the attempt ceiling: generate gives up with an error
\* event only once the third attempt has failed.
C2_EstablishmentFailureRetried ==
    (gpc = "done" /\ LastOutcome \in {"Timeout", "RequestException"})
        => Len(outcomes) = StopAfterAttempt

\* C3: whatever fails while the request is built or sent, generate ends with
\* exactly one error event and no exception leaves it.
C3_NeverThrows ==
    (gpc = "done" /\ LastOutcome # "Ok")
        => /\ raised = "none"
           /\ Len(events) = 1
           /\ HasError(events[1])

\* C6: in a streaming call that ends without error, the texts of the partial
\* events, concatenated in order, are the text of the terminal event.
C6_PartialsConcatEqualsTerminal ==
    (Streamed /\ gpc = "done" /\ \A i \in 1..Len(events) : ~HasError(events[i]))
        => \A i \in 1..Len(events) :
              IsTerminal(events[i])
                  => events[i].response.v = ConcatResponses(SelectSeq(events, IsPartial))

\* C7: every request sent carries max_tokens = min(r, w) when the options the
\* caller passed carry max_tokens = r, and carries no max_tokens when they carry
\* none.
C7_MaxTokensClamped ==
    \A i \in 1..Len(sent) :
        IF HasMaxTokens(options0)
        THEN LET r == options0.map["max_tokens"].n
                 w == context_window
             IN  /\ "max_tokens" \in DOMAIN sent[i]
                 /\ r > w => sent[i]["max_tokens"] = Num(w)
                 /\ r <= w => sent[i]["max_tokens"] = Num(r)
        ELSE "max_tokens" \notin DOMAIN sent[i]

\* C7 witness: a request has been sent for options whose max_tokens exceeds the
\* context window.
C7_Witness ==
    /\ sent # <<>>
    /\ HasMaxTokens(options0)
    /\ options0.map["max_tokens"].n > context_window

\* C9: a blocking call whose request succeeds produces exactly one event, of the
\* shape (response, model, created_at, done), and that event is terminal.
C9_BlockingOneTerminalEvent ==
    (gpc = "done" /\ ~stream /\ LastOutcome = "Ok")
        => /\ Len(events) = 1
           /\ DOMAIN events[1] = {"response", "model", "created_at", "done"}
           /\ events[1].done = TRUE

\* the text a wire line contributes to the reply: its raw text if it is no JSON, the
\* response field of an object, str() of any other JSON value
TextOfLine(l) ==
    LET x == LineOf(l)
    IN  IF x.kind = "raw" THEN x.raw
        ELSE IF x.kind = "json"
        THEN IF x.val.t = "dict" THEN Get(x.val.o, "response", Str(<<>>)).v ELSE x.val.v
        ELSE <<>>

RECURSIVE TextOfLines(_)
TextOfLines(w) == IF w = <<>> THEN <<>> ELSE TextOfLine(Head(w)) \o TextOfLines(Tail(w))

\* the line does not parse as JSON
FailsToParse(l) == LineOf(l).kind \notin {"json", "empty"}

\* the position of the event of wire line i: empty lines yield no event
EventIndex(i) == Cardinality({j \in 1..i : wire[j] # "empty"})

\* the callback raised on the line delivered last
CallbackRaisedOnLast ==
    /\ gpc = "done"
    /\ events # <<>>
    /\ HasError(events[Len(events)])
    /\ events[Len(events)].error = "callback failed"

\* C13: in a streaming call, a wire line that fails to parse as JSON (and on whose
\* text the callback does not raise) has a partial event of its own carrying its
\* raw text and does not end the stream: if the stream has ended, something after
\* that event ended it; and the text of a success terminal event is the text of
\* the lines in line order, the raw text at its position.
C13_UnparsedLineKeepsStream ==
    Streamed =>
       /\ \A i \in 1..Len(wire) :
             (FailsToParse(wire[i]) /\ ~(i = Len(wire) /\ CallbackRaisedOnLast))
                 => /\ EventIndex(i) <= Len(events)
                    /\ ~HasError(events[EventIndex(i)])
                    /\ ~DoneSet(events[EventIndex(i)])
                    /\ events[EventIndex(i)].response = Str(TextOfLine(wire[i]))
                    /\ (gpc = "done" /\ i = Len(wire)) => Len(events) > EventIndex(i)
       /\ (gpc = "done" /\ events # <<>> /\ ~HasError(events[Len(events)]))
             => events[Len(events)].response = Str(TextOfLines(wire))

\* the streaming handler ended in its except clause: something raised while the
\* stream was being read
StreamFailed ==
    /\ Streamed
    /\ gpc = "done"
    /\ events # <<>>
    /\ HasError(events[Len(events)])

\* the request that opened the stream is the last one sent
NotResent == Len(sent) = Len(outcomes)

\* C14: when an exception is raised while the stream is read (the transport fails
\* between lines, or the callback raises), the events hold exactly one error
\* event, the last one, carrying the exception text, and no success terminal event
\* (an event with the done flag set and no error); no exception reaches the
\* consumer; the request is not sent again, and no partial event is repeated
\* (there is at most one per non-empty line).
C14_StreamFailureOneErrorEvent ==
    StreamFailed =>
       /\ Cardinality({i \in 1..Len(events) : HasError(events[i])}) = 1
       /\ events[Len(events)].error
             \in {"Connection broken", "callback failed", "UnicodeDecodeError", "TypeError"}
       /\ \A i \in 1..Len(events) : ~(DoneSet(events[i]) /\ ~HasError(events[i]))
       /\ raised = "none"
       /\ NotResent
       /\ Len(events) - 1 <= EventIndex(Len(wire))

\* the request a later call would send for the options map opt
LaterRequest(opt) == RequestData(NormalizedOptions(opt, context_window), stream)

\* C15: generate leaves the caller's options map as it was passed (its max_tokens
\* entry included), and the map as the call left it yields the same request, when
\* passed again, as the map as it was passed.
C15_OptionsLeftAsPassed ==
    gpc # "idle" =>
       /\ options = options0
       /\ ~BuildRaises(options0) => LaterRequest(options) = LaterRequest(options0)

\* C16: every request body handed to requests.post carries the model and the
\* prompt arguments and a stream field equal to the stream argument, whatever the
\* keys of the options map; so the stream field agrees with the mode in which the
\* reply is read (the streaming handler, or the blocking normalisation).
C16_BodyCarriesArguments ==
    /\ \A i \in 1..Len(sent) :
          /\ sent[i].model = Name(ModelArg)
          /\ sent[i].prompt = Name(PromptArg)
          /\ sent[i].stream = Flag(stream)
    /\ Streamed => sent[Len(sent)].stream = Flag(TRUE)
    /\ (LastOutcome = "Ok" /\ ~Streamed) => sent[Len(sent)].stream = Flag(FALSE)

-----------------------------------------------------------------------------
(* Properties of a research run.                                           *)

IsTerminalProgress(e) == e.stage \in {"Complete", "Error"}

LastEvent == pevents[Len(pevents)]

\* p <= q for fractions <<numerator, denominator>>
FracLeq(p, q) == p.num * q.den <= q.num * p.den

\* the event sequence was read to its end (not abandoned)
Exhausted == research_manager = "manager" /\ rpc \in {"finally", "exit"} /\ exc = "none"

\* C4: the fractions of the progress events of one run are within [0, 1] and
\* non-decreasing, an event reports exactly 1.0 if and only if it is the Complete
\* event, and the terminal event is the last one, so the last fraction is 1.0 if
\* and only if the run ends in Complete.
C4_ProgressMonotoneToOne ==
    /\ \A i \in 1..Len(pevents) :
          /\ pevents[i].den > 0
          /\ 0 <= pevents[i].num /\ pevents[i].num <= pevents[i].den
          /\ (pevents[i].num = pevents[i].den) <=> (pevents[i].stage = "Complete")
          /\ progress[i] = <<pevents[i].num, pevents[i].den>>
    /\ \A i \in 1..(Len(pevents) - 1) : FracLeq(pevents[i], pevents[i + 1])
    /\ stage \in {"Complete", "Error"} => (pevents # <<>> /\ LastEvent.stage = stage)

\* C4 witness: a run of at least two areas and two iterations each has reached
\* Complete, having emitted one event per step.
C4_Witness ==
    /\ stage = "Complete"
    /\ nAreas >= 2
    /\ search_depth >= 2
    /\ Len(pevents) = TotalSteps(nAreas, search_depth)

C10_CleanupOnceAfterRun ==
    /\ cleanupCalls <= 1
    /\ rpc \in {"start", "loop", "finally"} => cleanupCalls = 0
    /\ (rpc = "exit" /\ research_manager = "manager") => cleanupCalls = 1
    /\ cleanupCalls = 1 => consumedAtCleanup = Len(consumed)

\* C10 witness: the consumer abandoned a run in mid-course with an exception that
\* is not caught, and cleanup has been called.
C10_Witness ==
    /\ rpc = "exit"
    /\ exc = "BaseException"
    /\ stage \notin {"Complete", "Error"}
    /\ cleanupCalls = 1

\* iteration d of area a has its search event, fetched or skipped
Searched(a, d) ==
    \E i \in 1..Len(pevents) :
        pevents[i].stage = "AreaSearch" /\ pevents[i].area = a /\ pevents[i].iter = d

\* area a has its summary event
Summarized(a) ==
    \E i \in 1..Len(pevents) : pevents[i].stage = "AreaSummary" /\ pevents[i].area = a

\* a generation request of stage st has been issued for area a (0 where the stage
\* has no area)
Requested(st, a) ==
    \E c \in 1..Len(calls) :
        calls[c].kind = "model" /\ calls[c].stage = st /\ calls[c].area = a

\* the place of a stage in the pipeline's order; both terminal stages come last
StageRank(st) ==
    CASE st = "Planning" -> 1
      [] st = "AreaSearch" -> 2
      [] st = "AreaSummary" -> 3
      [] st \in {"Complete", "Error"} -> 4

\* C11: areas are processed in plan order: from each event to the next the stage
\* never goes back, a search event is followed by a search event of a later
\* iteration of the same area or of a later area, and a summary event by the
\* summary event of a later area, so that every search event precedes every
\* summary event and no step is taken twice; when a summary request or summary
\* event of an area appears, that area has a search event, fetched or skipped, for
\* each of its search_depth iterations; and when the Aggregating request appears,
\* every area has its summary event.  Events and requests are only ever appended,
\* one step at a time, so what is stated of the latest one in every reachable
\* state is stated of each of them at the moment it appeared.
C11_StageOrder ==
    /\ Len(pevents) >= 2
          => LET e == pevents[Len(pevents) - 1]
                 f == pevents[Len(pevents)]
             IN  /\ StageRank(e.stage) <= StageRank(f.stage)
                 /\ (e.stage = "AreaSearch" /\ f.stage = "AreaSearch")
                       => \/ e.area < f.area
                          \/ e.area = f.area /\ e.iter < f.iter
                 /\ (e.stage = "AreaSummary" /\ f.stage = "AreaSummary")
                       => e.area < f.area
    /\ (pevents # <<>> /\ LastEvent.stage = "AreaSummary")
          => \A d \in 1..search_depth : Searched(LastEvent.area, d)
    /\ calls # <<>>
          => LET c == calls[Len(calls)]
             IN  /\ (c.kind = "model" /\ c.stage = "AreaSummary")
                       => \A d \in 1..search_depth : Searched(c.area, d)
                 /\ (c.kind = "model" /\ c.stage = "Aggregating")
                       => \A a \in 1..nAreas : Summarized(a)

\* C11 witness: a run of two areas and two iterations each, one of them skipped,
\* has issued its Aggregating request.
C11_Witness ==
    /\ nAreas >= 2
    /\ search_depth >= 2
    /\ Requested("Aggregating", 0)
    /\ \E i \in 1..Len(pevents) : pevents[i].note = "skipped"

\* C12: the k-th event of a run, unless it is the Error event, reports the fraction
\* k / (1 + N * depth + N + 1); and a successful run of N = 2 areas at depth 1 has
\* emitted exactly six events, Planning, AreaSearch, AreaSearch, AreaSummary,
\* AreaSummary, Complete, with the fractions 1/6, 2/6, 3/6, 4/6, 5/6 and 6/6 = 1.0.
C12_StepFractions ==
    /\ \A k \in 1..Len(pevents) :
          pevents[k].stage # "Error"
              => /\ pevents[k].num = k
                 /\ pevents[k].den = 1 + nAreas * search_depth + nAreas + 1
    /\ (stage = "Complete" /\ nAreas = 2 /\ search_depth = 1)
          => /\ [k \in 1..Len(pevents) |-> pevents[k].stage]
                   = <<"Planning", "AreaSearch", "AreaSearch", "AreaSummary",
                       "AreaSummary", "Complete">>
             /\ [k \in 1..Len(pevents) |-> <<pevents[k].num, pevents[k].den>>]
                   = <<(<<1, 6>>), (<<2, 6>>), (<<3, 6>>), (<<4, 6>>), (<<5, 6>>), (<<6, 6>>)>>
             /\ progress = [k \in 1..6 |-> <<k, 6>>]

\* C12 witness: a run of two areas at depth 1 has reached Complete with six events.
C12_Witness ==
    /\ stage = "Complete"
    /\ nAreas = 2
    /\ search_depth = 1
    /\ Len(pevents) = 6

=============================================================================
